---- MODULE Spec2Model ----
(***************************************************************************)
(* Scheduling, dispatch and pipeline-lifecycle core of AIST.               *)
(*                                                                         *)
(*   SchedSpec : process_launch_schedules (Scheduler Tick)                 *)
(*   DispSpec  : dispatch_queued_pipelines (Dispatcher Tick)               *)
(*   PipeSpec  : run_sast_pipeline, stop_pipeline, manual start,           *)
(*               set-status, AI push and AI callback on AISTPipeline rows  *)
(*                                                                         *)
(* Database rows are records; a transaction that takes a row lock with     *)
(* select_for_update is one atomic step guarded by the lock being free,    *)
(* except the first block of run_sast_pipeline, which is split in a        *)
(* lock step and a commit/rollback step.                                   *)
(***************************************************************************)
EXTENDS Integers, Sequences, FiniteSets, TLC

\* ------------------------------------------------------------------ bounds
MaxTime == 4
MaxQueue == 2
NumWorkers == 2
MaxLoad == 1
MaxPipelines == 2
MaxTasks == 2

\* ------------------------------------------------------- model-wide values
NoneTime == 0 - 1
NoSchedule == 0
NoPipeline == 0
NoTask == 0
InvalidCron == 0
CronPeriods == {2, 3}
Limits == 0..2

Schedules == {1, 2}
Versions == {1}

\* AISTStatus members used by the code
FINISHED == "FINISHED"
SAST_LAUNCHED == "SAST_LAUNCHED"
UPLOADING_RESULTS == "UPLOADING_RESULTS"
FINDING_POSTPROCESSING == "FINDING_POSTPROCESSING"
WAITING_CONFIRMATION_TO_PUSH_TO_AI == "WAITING_CONFIRMATION_TO_PUSH_TO_AI"
PUSH_TO_AI == "PUSH_TO_AI"
WAITING_RESULT_FROM_AI == "WAITING_RESULT_FROM_AI"

VARIABLES
    now,          \* timezone.now(), in whole ticks of the wall clock
    schedules,    \* LaunchSchedule rows: s -> [enabled, cron_expression, max_concurrent_per_worker, last_run_at]
    queue,        \* PipelineLaunchQueue rows in id order
    stPc, stNow, stTodo, stRows,   \* process_launch_schedules: position, its `now`, schedules left, loaded rows
    enqLog,       \* history: <<schedule, due tick>> of every entry created by a Scheduler Tick
    lastDecision, \* history: per schedule, outcome and due tick of the last loop body run for it
    dPc, dRunning, dItems,         \* dispatch_queued_pipelines: position, running_per_worker, items left
    dSnap, dLog,  \* history: running_per_worker as first counted, and this tick's decisions
    admitLog,     \* history: the queue entry behind every pipeline a Dispatcher Tick created and started
    other,        \* a second dispatch_queued_pipelines run overlapping the first: its position and locals
    pipelines,    \* AISTPipeline rows in creation order
    tasks,        \* deliveries of run_sast_pipeline
    starts,       \* manual start requests in flight
    stops,        \* stop requests in flight
    lastSet,      \* history: the most recent set_pipeline_status call
    reply,        \* the response to the last schedule API request
    stream,       \* one client of the pipeline status stream: position, last_status, events sent
    push          \* AI push requests in flight and the push_request_to_ai tasks queued

schedVars == <<now, schedules, queue, stPc, stNow, stTodo, stRows, enqLog, lastDecision>>
dispVars == <<dPc, dRunning, dItems, dSnap, dLog, admitLog, other>>
pipeVars == <<pipelines, tasks, starts, stops, lastSet>>
apiVars == <<reply, stream, push>>
vars == <<now, schedules, queue, stPc, stNow, stTodo, stRows, enqLog, lastDecision,
          dPc, dRunning, dItems, dSnap, dLog, admitLog, other,
          pipelines, tasks, starts, stops, lastSet, reply, stream, push>>

\* ------------------------------------------------------------ small helpers
Range(f) == {f[i] : i \in DOMAIN f}

Max0(n) == IF n > 0 THEN n ELSE 0

RECURSIVE SumSeq(_)
SumSeq(s) == IF s = <<>> THEN 0 ELSE Head(s) + SumSeq(Tail(s))

RECURSIVE SeqOfSet(_)
\* the elements of a set of integers in increasing order
SeqOfSet(S) ==
    IF S = {} THEN <<>>
    ELSE LET m == CHOOSE x \in S : \A y \in S : x <= y
         IN <<m>> \o SeqOfSet(S \ {m})

\* ===========================================================================
\* Cron Evaluator and Scheduler Tick
\* ===========================================================================

\* LaunchSchedule.get_next_run_time(now): the most recent due tick <= now.
\* A valid expression is modelled by its period; the invalid one raises.
get_next_run_time(cron, t) == t - (t % cron)

\* launch_schedule.py:43  `if last and due_time <= last`
AlreadyProcessedStrict(last, due) == last # NoneTime /\ due < last
AlreadyProcessed(last, due) == last # NoneTime /\ due <= last

NewQueueEntry(s, created) ==
    [created |-> created, schedule |-> s, launch_config |-> s,
     dispatched |-> FALSE, dispatched_at |-> NoneTime, pipeline |-> NoPipeline]

\* the wall clock advances
ClockTick ==
    /\ now < MaxTime
    /\ now' = now + 1
    /\ UNCHANGED <<schedules, queue, stPc, stNow, stTodo, stRows, enqLog, lastDecision>>
    /\ UNCHANGED dispVars
    /\ UNCHANGED pipeVars
    /\ UNCHANGED apiVars

\* process_launch_schedules, lines 12-19: read the clock and load every schedule
SchedTickStart ==
    /\ stPc = "idle"
    /\ stPc' = "loop"
    /\ stNow' = now
    /\ stTodo' = SeqOfSet(Schedules)
    /\ stRows' = schedules
    /\ UNCHANGED <<now, schedules, queue, enqLog, lastDecision>>
    /\ UNCHANGED dispVars
    /\ UNCHANGED pipeVars
    /\ UNCHANGED apiVars

\* loop body, lines 21-64, without the try/except of lines 25-34: the parse
\* error of an invalid cron expression ends the task
SchedTickBodyRaisesOnInvalid ==
    /\ stPc = "loop"
    /\ stTodo # <<>>
    /\ LET s == Head(stTodo)
           row == stRows[s]
           due == get_next_run_time(row.cron_expression, stNow)
       IN IF ~row.enabled
          THEN /\ lastDecision' = [lastDecision EXCEPT ![s] = [kind |-> "disabled", due |-> NoneTime]]
               /\ stTodo' = Tail(stTodo)
               /\ UNCHANGED <<queue, enqLog, stPc>>
          ELSE IF row.cron_expression = InvalidCron
          THEN /\ lastDecision' = [lastDecision EXCEPT ![s] = [kind |-> "invalid", due |-> NoneTime]]
               /\ stTodo' = <<>>
               /\ stPc' = "idle"
               /\ UNCHANGED <<queue, enqLog>>
          ELSE IF AlreadyProcessed(row.last_run_at, due)
          THEN /\ lastDecision' = [lastDecision EXCEPT ![s] = [kind |-> "notdue", due |-> due]]
               /\ stTodo' = Tail(stTodo)
               /\ UNCHANGED <<queue, enqLog, stPc>>
          ELSE /\ queue' = Append(queue, NewQueueEntry(s, now))
               /\ enqLog' = Append(enqLog, <<s, due>>)
               /\ lastDecision' = [lastDecision EXCEPT ![s] = [kind |-> "enqueued", due |-> due]]
               /\ stPc' = "save"
               /\ UNCHANGED stTodo
    /\ UNCHANGED <<now, schedules, stNow, stRows>>
    /\ UNCHANGED dispVars
    /\ UNCHANGED pipeVars
    /\ UNCHANGED apiVars

\* loop body, lines 21-64: skip a disabled, unparsable or already processed
\* schedule, otherwise create the queue entry
SchedTickBody ==
    /\ stPc = "loop"
    /\ stTodo # <<>>
    /\ LET s == Head(stTodo)
           row == stRows[s]
           due == get_next_run_time(row.cron_expression, stNow)
       IN IF ~row.enabled
          THEN /\ lastDecision' = [lastDecision EXCEPT ![s] = [kind |-> "disabled", due |-> NoneTime]]
               /\ stTodo' = Tail(stTodo)
               /\ UNCHANGED <<queue, enqLog, stPc>>
          ELSE IF row.cron_expression = InvalidCron
          THEN /\ lastDecision' = [lastDecision EXCEPT ![s] = [kind |-> "invalid", due |-> NoneTime]]
               /\ stTodo' = Tail(stTodo)
               /\ UNCHANGED <<queue, enqLog, stPc>>
          ELSE IF AlreadyProcessed(row.last_run_at, due)
          THEN /\ lastDecision' = [lastDecision EXCEPT ![s] = [kind |-> "notdue", due |-> due]]
               /\ stTodo' = Tail(stTodo)
               /\ UNCHANGED <<queue, enqLog, stPc>>
          ELSE /\ queue' = Append(queue, NewQueueEntry(s, now))
               /\ enqLog' = Append(enqLog, <<s, due>>)
               /\ lastDecision' = [lastDecision EXCEPT ![s] = [kind |-> "enqueued", due |-> due]]
               /\ stPc' = "save"
               /\ UNCHANGED stTodo
    /\ UNCHANGED <<now, schedules, stNow, stRows>>
    /\ UNCHANGED dispVars
    /\ UNCHANGED pipeVars
    /\ UNCHANGED apiVars

\* lines 75-76 storing the due tick instead of the evaluation instant
SchedTickSaveDue ==
    /\ stPc = "save"
    /\ LET s == Head(stTodo)
       IN schedules' = [schedules EXCEPT ![s].last_run_at = lastDecision[s].due]
    /\ stTodo' = Tail(stTodo)
    /\ stPc' = "loop"
    /\ UNCHANGED <<now, queue, stNow, stRows, enqLog, lastDecision>>
    /\ UNCHANGED dispVars
    /\ UNCHANGED pipeVars
    /\ UNCHANGED apiVars

\* lines 75-76: sched.last_run_at = now; sched.save(update_fields=["last_run_at"])
SchedTickSave ==
    /\ stPc = "save"
    /\ LET s == Head(stTodo)
       IN schedules' = [schedules EXCEPT ![s].last_run_at = stNow]
    /\ stTodo' = Tail(stTodo)
    /\ stPc' = "loop"
    /\ UNCHANGED <<now, queue, stNow, stRows, enqLog, lastDecision>>
    /\ UNCHANGED dispVars
    /\ UNCHANGED pipeVars
    /\ UNCHANGED apiVars

\* the loop is exhausted and the task returns
SchedTickEnd ==
    /\ stPc = "loop"
    /\ stTodo = <<>>
    /\ stPc' = "idle"
    /\ UNCHANGED <<now, schedules, queue, stNow, stTodo, stRows, enqLog, lastDecision>>
    /\ UNCHANGED dispVars
    /\ UNCHANGED pipeVars
    /\ UNCHANGED apiVars

\* a persistence failure in the loop body: PipelineLaunchQueue.objects.create
\* (line 60) or sched.save (line 76) raises; nothing in the loop catches it, so
\* the exception ends the task with the remaining schedules unprocessed
SchedTickCrash ==
    /\ Len(queue) < MaxQueue
    /\ stTodo # <<>>
    /\ LET s == Head(stTodo)
           row == stRows[s]
           due == get_next_run_time(row.cron_expression, stNow)
       IN /\ \/ stPc = "save"
             \/ /\ stPc = "loop"
                /\ row.enabled
                /\ row.cron_expression # InvalidCron
                /\ ~AlreadyProcessed(row.last_run_at, due)
          /\ lastDecision' = [lastDecision EXCEPT ![s] = [kind |-> "error", due |-> due]]
    /\ stPc' = "idle"
    /\ stTodo' = <<>>
    /\ UNCHANGED <<now, schedules, queue, stNow, stRows, enqLog>>
    /\ UNCHANGED dispVars
    /\ UNCHANGED pipeVars
    /\ UNCHANGED apiVars

RECURSIVE RunTick(_, _, _)
\* lines 21-76 run to the end over the schedules in todo, as loaded in rows, at
\* the current instant: the rows, queue and enqueue history it leaves behind
RunTick(todo, rows, st) ==
    IF todo = <<>> THEN st
    ELSE LET s == Head(todo)
             row == rows[s]
             due == get_next_run_time(row.cron_expression, now)
         IN IF \/ ~row.enabled
               \/ row.cron_expression = InvalidCron
               \/ AlreadyProcessed(row.last_run_at, due)
            THEN RunTick(Tail(todo), rows, st)
            ELSE RunTick(Tail(todo), rows,
                     [schedules |-> [st.schedules EXCEPT ![s].last_run_at = now],
                      queue |-> Append(st.queue, NewQueueEntry(s, now)),
                      enqLog |-> Append(st.enqLog, <<s, due>>)])

\* a second run of process_launch_schedules overlapping the first, from its
\* read of the schedules to its return
OtherSchedTick ==
    /\ Len(queue) < MaxQueue
    /\ LET st == RunTick(SeqOfSet(Schedules), schedules,
                         [schedules |-> schedules, queue |-> queue, enqLog |-> enqLog])
       IN /\ schedules' = st.schedules
          /\ queue' = st.queue
          /\ enqLog' = st.enqLog
    /\ UNCHANGED <<now, stPc, stNow, stTodo, stRows, lastDecision>>
    /\ UNCHANGED dispVars
    /\ UNCHANGED pipeVars
    /\ UNCHANGED apiVars

\* ===========================================================================
\* Launch queue producers
\* ===========================================================================

\* the run-once handler also storing the instant of the request as the
\* schedule's last_run_at
RunOnceStampsSchedule(s, dt) ==
    /\ Len(queue) < MaxQueue
    /\ now + dt <= MaxTime
    /\ now' = now + dt
    /\ queue' = Append(queue, NewQueueEntry(s, now + dt))
    /\ schedules' = [schedules EXCEPT ![s].last_run_at = now + dt]
    /\ UNCHANGED <<stPc, stNow, stTodo, stRows, enqLog, lastDecision>>
    /\ UNCHANGED dispVars
    /\ UNCHANGED pipeVars
    /\ UNCHANGED apiVars

\* LaunchScheduleRunOnceAPI.post, dt after the previous step: enqueue one entry
\* for schedule s, cron untouched
RunOnce(s, dt) ==
    /\ Len(queue) < MaxQueue
    /\ now + dt <= MaxTime
    /\ now' = now + dt
    /\ queue' = Append(queue, NewQueueEntry(s, now + dt))
    /\ UNCHANGED <<schedules, stPc, stNow, stTodo, stRows, enqLog, lastDecision>>
    /\ UNCHANGED dispVars
    /\ UNCHANGED pipeVars
    /\ UNCHANGED apiVars

\* a queue row whose schedule is NULL (as the dispatcher tests create it), dt
\* after the previous step
EnqueueWithoutSchedule(dt) ==
    /\ Len(queue) < MaxQueue
    /\ now + dt <= MaxTime
    /\ now' = now + dt
    /\ queue' = Append(queue, NewQueueEntry(NoSchedule, now + dt))
    /\ UNCHANGED <<schedules, stPc, stNow, stTodo, stRows, enqLog, lastDecision>>
    /\ UNCHANGED dispVars
    /\ UNCHANGED pipeVars
    /\ UNCHANGED apiVars

\* ===========================================================================
\* Pipeline rows and run_sast_pipeline deliveries (shared by dispatch and start)
\* ===========================================================================

\* the project version a launch configuration's params name
CfgVersion(c) == CHOOSE pv \in Versions : TRUE

\* create_pipeline_object: a new row, status FINISHED; deleted: the row has
\* been removed by pipeline.delete() since
create_pipeline_object(pv) ==
    [project_version |-> pv, status |-> FINISHED, started |-> FALSE,
     run_task_id |-> NoTask, lockedBy |-> NoTask, committed |-> {FINISHED},
     deleted |-> FALSE]

\* run_sast_pipeline.delay(pipeline.id, params): a queued delivery with task id tid
NewDelivery(p, tid) ==
    [pipeline |-> p, tid |-> tid, pc |-> "queued", mem |-> FINISHED]

\* ===========================================================================
\* Dispatcher Tick
\* ===========================================================================

\* running_per_worker as counted from inspect.active(): one count per replying
\* worker, in the order of the mapping; no reply at all gives the empty map
WorkerSnapshots == UNION {[1..n -> 0..MaxLoad] : n \in 0..NumWorkers}

Undispatched == {i \in 1..Len(queue) : ~queue[i].dispatched}

\* .filter(dispatched=False).order_by("created"): any order of the rows that is
\* non-decreasing in created
QueuedOrders ==
    {o \in [1..Cardinality(Undispatched) -> Undispatched] :
        /\ \A i, j \in DOMAIN o : i # j => o[i] # o[j]
        /\ \A i, j \in DOMAIN o : i < j => queue[o[i]].created <= queue[o[j]].created}

\* one loaded row with its select_related schedule
LoadItem(i) ==
    LET s == queue[i].schedule
    IN [id |-> i, created |-> queue[i].created, schedule |-> s,
        enabled |-> IF s = NoSchedule THEN FALSE ELSE schedules[s].enabled,
        limit |-> IF s = NoSchedule THEN 0 ELSE schedules[s].max_concurrent_per_worker]

\* lines 79-83: some worker has count < limit
available_worker(running, limit) == \E w \in DOMAIN running : running[w] < limit

\* lines 126-131: the first worker of the mapping with count < limit gets one more
IncrementFirstWorker(running, limit) ==
    IF running = <<>> THEN running ELSE [running EXCEPT ![1] = @ + 1]
increment_running(running, limit) ==
    IF limit > 0 /\ available_worker(running, limit)
    THEN LET w == CHOOSE x \in DOMAIN running :
                    /\ running[x] < limit
                    /\ \A y \in DOMAIN running : running[y] < limit => x <= y
         IN [running EXCEPT ![w] = @ + 1]
    ELSE running

\* line 89: `break` leaves nothing to iterate
SkipPastCapacityWall(items) == Tail(items)
AfterCapacityWall(items) == <<>>

DispEvent(kind, item) ==
    [kind |-> kind, id |-> item.id, created |-> item.created, limit |-> item.limit]

\* no second run of the task in flight
IdleTick == [pc |-> "idle", running |-> <<>>, items |-> <<>>]

\* lines 28-54: count running pipelines per worker and load the queued items
DispStart ==
    /\ dPc = "idle"
    /\ \E running \in WorkerSnapshots, o \in QueuedOrders :
        /\ dRunning' = running
        /\ dSnap' = running
        /\ dItems' = [i \in DOMAIN o |-> LoadItem(o[i])]
    /\ dLog' = <<>>
    /\ dPc' = "loop"
    /\ UNCHANGED <<admitLog, other>>
    /\ UNCHANGED schedVars
    /\ UNCHANGED pipeVars
    /\ UNCHANGED apiVars

\* lines 55-67 dispatching the item instead of passing over it
DispSkipAdmits ==
    /\ dPc = "loop"
    /\ dItems # <<>>
    /\ LET item == Head(dItems)
           p == Len(pipelines) + 1
           t == Len(tasks) + 1
       IN /\ item.schedule = NoSchedule \/ ~item.enabled \/ item.limit < 1
          /\ pipelines' = Append(pipelines,
                 [create_pipeline_object(CfgVersion(item.schedule)) EXCEPT !.run_task_id = t])
          /\ tasks' = Append(tasks, NewDelivery(p, t))
          /\ queue' = [queue EXCEPT ![item.id].pipeline = p,
                                    ![item.id].dispatched = TRUE,
                                    ![item.id].dispatched_at = now]
          /\ dLog' = Append(dLog, DispEvent("admit", item))
          /\ admitLog' = Append(admitLog, item.id)
    /\ dItems' = Tail(dItems)
    /\ UNCHANGED <<dPc, dRunning, dSnap, other>>
    /\ UNCHANGED <<now, schedules, stPc, stNow, stTodo, stRows, enqLog, lastDecision>>
    /\ UNCHANGED <<starts, stops, lastSet>>
    /\ UNCHANGED apiVars

\* lines 55-67 with `break` in place of `continue`
DispSkipStops ==
    /\ dPc = "loop"
    /\ dItems # <<>>
    /\ LET item == Head(dItems)
       IN /\ item.schedule = NoSchedule \/ ~item.enabled \/ item.limit < 1
          /\ dLog' = Append(dLog, DispEvent("skip", item))
    /\ dItems' = <<>>
    /\ UNCHANGED <<dPc, dRunning, dSnap, admitLog, other>>
    /\ UNCHANGED schedVars
    /\ UNCHANGED pipeVars
    /\ UNCHANGED apiVars

\* lines 55-67: no schedule, disabled schedule or limit < 1: continue
DispSkip ==
    /\ dPc = "loop"
    /\ dItems # <<>>
    /\ LET item == Head(dItems)
       IN /\ item.schedule = NoSchedule \/ ~item.enabled \/ item.limit < 1
          /\ dLog' = Append(dLog, DispEvent("skip", item))
    /\ dItems' = Tail(dItems)
    /\ UNCHANGED <<dPc, dRunning, dSnap, admitLog, other>>
    /\ UNCHANGED schedVars
    /\ UNCHANGED pipeVars
    /\ UNCHANGED apiVars

\* lines 69-89 taking an empty worker map for "no capacity"
DispRefuseOnEmpty ==
    /\ dPc = "loop"
    /\ dItems # <<>>
    /\ LET item == Head(dItems)
       IN /\ item.schedule # NoSchedule /\ item.enabled /\ item.limit >= 1
          /\ ~available_worker(dRunning, item.limit)
          /\ dLog' = Append(dLog, DispEvent("refuse", item))
    /\ dItems' = AfterCapacityWall(dItems)
    /\ UNCHANGED <<dPc, dRunning, dSnap, admitLog, other>>
    /\ UNCHANGED schedVars
    /\ UNCHANGED pipeVars
    /\ UNCHANGED apiVars

\* lines 78-89: every counted worker is at the limit: stop the cycle
DispRefuse ==
    /\ dPc = "loop"
    /\ dItems # <<>>
    /\ LET item == Head(dItems)
       IN /\ item.schedule # NoSchedule /\ item.enabled /\ item.limit >= 1
          /\ dRunning # <<>>
          /\ ~available_worker(dRunning, item.limit)
          /\ dLog' = Append(dLog, DispEvent("refuse", item))
    /\ dItems' = AfterCapacityWall(dItems)
    /\ UNCHANGED <<dPc, dRunning, dSnap, admitLog, other>>
    /\ UNCHANGED schedVars
    /\ UNCHANGED pipeVars
    /\ UNCHANGED apiVars

\* lines 93-104 counting the failed entry against a worker before `continue`
DispParamsFailCounts ==
    /\ dPc = "loop"
    /\ dItems # <<>>
    /\ LET item == Head(dItems)
       IN /\ item.schedule # NoSchedule /\ item.enabled /\ item.limit >= 1
          /\ dRunning = <<>> \/ available_worker(dRunning, item.limit)
          /\ dRunning' = increment_running(dRunning, item.limit)
          /\ dLog' = Append(dLog, DispEvent("fail", item))
    /\ dItems' = Tail(dItems)
    /\ UNCHANGED <<dPc, dSnap, admitLog, other>>
    /\ UNCHANGED schedVars
    /\ UNCHANGED pipeVars
    /\ UNCHANGED apiVars

\* lines 93-104: normalize_params or the version lookup raises: continue
DispParamsFail ==
    /\ dPc = "loop"
    /\ dItems # <<>>
    /\ LET item == Head(dItems)
       IN /\ item.schedule # NoSchedule /\ item.enabled /\ item.limit >= 1
          /\ dRunning = <<>> \/ available_worker(dRunning, item.limit)
          /\ dLog' = Append(dLog, DispEvent("fail", item))
    /\ dItems' = Tail(dItems)
    /\ UNCHANGED <<dPc, dRunning, dSnap, admitLog, other>>
    /\ UNCHANGED schedVars
    /\ UNCHANGED pipeVars
    /\ UNCHANGED apiVars

\* lines 106-131: create the pipeline, start its task, mark the item, count it
DispAdmit ==
    /\ dPc = "loop"
    /\ dItems # <<>>
    /\ LET item == Head(dItems)
           c == queue[item.id].launch_config
           p == Len(pipelines) + 1
           t == Len(tasks) + 1
       IN /\ item.schedule # NoSchedule /\ item.enabled /\ item.limit >= 1
          /\ dRunning = <<>> \/ available_worker(dRunning, item.limit)
          /\ pipelines' = Append(pipelines,
                 [create_pipeline_object(CfgVersion(c)) EXCEPT !.run_task_id = t])
          /\ tasks' = Append(tasks, NewDelivery(p, t))
          /\ queue' = [queue EXCEPT ![item.id].pipeline = p,
                                    ![item.id].dispatched = TRUE,
                                    ![item.id].dispatched_at = now]
          /\ dRunning' = increment_running(dRunning, item.limit)
          /\ dLog' = Append(dLog, DispEvent("admit", item))
          /\ admitLog' = Append(admitLog, item.id)
    /\ dItems' = Tail(dItems)
    /\ UNCHANGED <<dPc, dSnap, other>>
    /\ UNCHANGED <<now, schedules, stPc, stNow, stTodo, stRows, enqLog, lastDecision>>
    /\ UNCHANGED <<starts, stops, lastSet>>
    /\ UNCHANGED apiVars

\* the iteration is over and the task returns; its locals are gone
DispEnd ==
    /\ dPc = "loop"
    /\ dItems = <<>>
    /\ dPc' = "idle"
    /\ dRunning' = <<>>
    /\ dSnap' = <<>>
    /\ dLog' = <<>>
    /\ UNCHANGED <<dItems, admitLog, other>>
    /\ UNCHANGED schedVars
    /\ UNCHANGED pipeVars
    /\ UNCHANGED apiVars

\* lines 106-119 with pipeline.save(update_fields=["run_task_id"]) raising (the
\* row was deleted meanwhile, or the database failed): the pipeline exists and
\* its task is started, the item is not marked, the exception ends the task
DispAdmitCrash ==
    /\ dPc = "loop"
    /\ dItems # <<>>
    /\ Len(pipelines) < MaxPipelines
    /\ LET item == Head(dItems)
           c == queue[item.id].launch_config
           p == Len(pipelines) + 1
           t == Len(tasks) + 1
       IN /\ item.schedule # NoSchedule /\ item.enabled /\ item.limit >= 1
          /\ dRunning = <<>> \/ available_worker(dRunning, item.limit)
          /\ pipelines' = Append(pipelines, create_pipeline_object(CfgVersion(c)))
          /\ tasks' = Append(tasks, NewDelivery(p, t))
          /\ admitLog' = Append(admitLog, item.id)
    /\ dPc' = "idle"
    /\ dItems' = <<>>
    /\ dRunning' = <<>>
    /\ dSnap' = <<>>
    /\ dLog' = <<>>
    /\ UNCHANGED other
    /\ UNCHANGED schedVars
    /\ UNCHANGED <<starts, stops, lastSet>>
    /\ UNCHANGED apiVars

\* a second run of the task, lines 28-54: its own counts and its own queryset
OtherTickStart ==
    /\ other.pc = "idle"
    /\ \E running \in WorkerSnapshots, o \in QueuedOrders :
        other' = [pc |-> "loop", running |-> running,
                  items |-> [i \in DOMAIN o |-> LoadItem(o[i])]]
    /\ UNCHANGED <<dPc, dRunning, dItems, dSnap, dLog, admitLog>>
    /\ UNCHANGED schedVars
    /\ UNCHANGED pipeVars
    /\ UNCHANGED apiVars

\* the second run's loop body, lines 55-131, for its next item: continue, break,
\* parameter failure, or create, start, mark and count
OtherTickItem ==
    /\ other.pc = "loop"
    /\ other.items # <<>>
    /\ Len(pipelines) < MaxPipelines
    /\ LET item == Head(other.items)
           c == queue[item.id].launch_config
           p == Len(pipelines) + 1
           t == Len(tasks) + 1
       IN IF item.schedule = NoSchedule \/ ~item.enabled \/ item.limit < 1
          THEN /\ other' = [other EXCEPT !.items = Tail(@)]
               /\ UNCHANGED <<pipelines, tasks, queue, admitLog>>
          ELSE IF other.running # <<>> /\ ~available_worker(other.running, item.limit)
          THEN /\ other' = [other EXCEPT !.items = AfterCapacityWall(@)]
               /\ UNCHANGED <<pipelines, tasks, queue, admitLog>>
          ELSE \/ /\ other' = [other EXCEPT !.items = Tail(@)]
                  /\ UNCHANGED <<pipelines, tasks, queue, admitLog>>
               \/ /\ pipelines' = Append(pipelines,
                         [create_pipeline_object(CfgVersion(c)) EXCEPT !.run_task_id = t])
                  /\ tasks' = Append(tasks, NewDelivery(p, t))
                  /\ queue' = [queue EXCEPT ![item.id].pipeline = p,
                                            ![item.id].dispatched = TRUE,
                                            ![item.id].dispatched_at = now]
                  /\ admitLog' = Append(admitLog, item.id)
                  /\ other' = [other EXCEPT !.items = Tail(@),
                                            !.running = increment_running(@, item.limit)]
    /\ UNCHANGED <<dPc, dRunning, dItems, dSnap, dLog>>
    /\ UNCHANGED <<now, schedules, stPc, stNow, stTodo, stRows, enqLog, lastDecision>>
    /\ UNCHANGED <<starts, stops, lastSet>>
    /\ UNCHANGED apiVars

\* the second run returns
OtherTickEnd ==
    /\ other.pc = "loop"
    /\ other.items = <<>>
    /\ other' = IdleTick
    /\ UNCHANGED <<dPc, dRunning, dItems, dSnap, dLog, admitLog>>
    /\ UNCHANGED schedVars
    /\ UNCHANGED pipeVars
    /\ UNCHANGED apiVars

\* ===========================================================================
\* Pipeline status writes
\* ===========================================================================

\* set_pipeline_status's return value: False when the object already carries
\* new_status (early return before save and on_commit), True otherwise
set_pipeline_status_always(old_status, new_status) == TRUE
set_pipeline_status(old_status, new_status) == old_status # new_status

\* pipeline.save(update_fields=["status", "updated", ...]) once committed
SaveStatus(rows, p, old_status, new_status) ==
    IF set_pipeline_status(old_status, new_status)
    THEN [rows EXCEPT ![p].status = new_status, ![p].committed = @ \cup {new_status}]
    ELSE rows

\* what one set_pipeline_status call on row p did: saved the row, registered the
\* on_commit callback, and (the transaction having committed) sent the signal;
\* old_committed: had old_status ever been committed for that row
SetCall(p, old_status, new_status, commits) ==
    [pipeline |-> p, same |-> old_status = new_status,
     saved |-> set_pipeline_status(old_status, new_status),
     registered |-> set_pipeline_status(old_status, new_status),
     delivered |-> commits /\ set_pipeline_status(old_status, new_status),
     old_committed |-> old_status \in pipelines[p].committed,
     finished_sent |-> FALSE]

\* finish_pipeline: set_pipeline_status(pipeline, FINISHED), then the
\* pipeline_finished signal is registered with on_commit whatever the first
\* call returned; finished_sent: that signal went out
finish_pipeline(p, old_status, commits) ==
    [SetCall(p, old_status, FINISHED, commits) EXCEPT !.finished_sent = commits]

NoSetCall ==
    [pipeline |-> NoPipeline, same |-> TRUE, saved |-> FALSE, registered |-> FALSE,
     delivered |-> FALSE, old_committed |-> TRUE, finished_sent |-> FALSE]

\* no schedule API request answered yet
NoReply == [api |-> "none"]

\* no status stream opened; last_status = None
NoStream == [pc |-> "closed", pipeline |-> NoPipeline, last_status |-> "None",
             done_at |-> FALSE, events |-> <<>>]

\* the clients that send a push request
Requests == {1, 2}

\* no push request made, no push task queued
NoPush == [reqs |-> [r \in Requests |-> [pc |-> "idle", pipeline |-> NoPipeline]],
           queued |-> <<>>]

\* no start request, no stop request in flight; no decision taken yet
IdleStart == [pc |-> "idle", pv |-> 1]
IdleStop == [pc |-> "idle", pipeline |-> NoPipeline, mem |-> FINISHED, run_task_id |-> NoTask]
NoDecision == [kind |-> "none", due |-> NoneTime]

\* has_unfinished_pipeline(project_version)
has_unfinished_pipeline(pv) ==
    \E p \in DOMAIN pipelines :
        /\ ~pipelines[p].deleted
        /\ pipelines[p].project_version = pv /\ pipelines[p].status # FINISHED

\* select_for_update() can take the row lock
RowFreeIgnoringLock(p) == TRUE
RowFree(p) == pipelines[p].lockedBy = NoTask

TaskEnded(t) == tasks[t].pc \in {"skipped", "done", "replaced", "failed", "revoked"}

\* ===========================================================================
\* Manual start: PipelineStartAPI.post / ProjectLaunchConfigStartAPI.post /
\* AISTPipelineRunForm.clean + start_pipeline
\* ===========================================================================

\* the has_unfinished_pipeline check: 405 / form error, or go on
StartCheck(pv) ==
    /\ starts.pc = "idle"
    /\ starts' = IF has_unfinished_pipeline(pv)
                 THEN IdleStart
                 ELSE [pc |-> "checked", pv |-> pv]
    /\ UNCHANGED schedVars
    /\ UNCHANGED dispVars
    /\ UNCHANGED <<pipelines, tasks, stops, lastSet>>
    /\ UNCHANGED apiVars

\* create_pipeline_object, run_sast_pipeline.delay, save run_task_id
StartCreate(maxRows) ==
    /\ starts.pc = "checked"
    /\ Len(pipelines) < maxRows
    /\ Len(tasks) < MaxTasks
    /\ LET p == Len(pipelines) + 1
           t == Len(tasks) + 1
       IN /\ pipelines' = Append(pipelines,
                 [create_pipeline_object(starts.pv) EXCEPT !.run_task_id = t])
          /\ tasks' = Append(tasks, NewDelivery(p, t))
    /\ starts' = IdleStart
    /\ UNCHANGED schedVars
    /\ UNCHANGED dispVars
    /\ UNCHANGED <<stops, lastSet>>
    /\ UNCHANGED apiVars

\* the three manual start entry points
EntryPoints == {"PipelineStartAPI", "ProjectLaunchConfigStartAPI", "AISTPipelineRunForm"}

\* what the caller gets for a project version with an unfinished pipeline:
\* Response(status=405) from the two APIs, the form error "There is already a
\* running pipeline for this project version." from the run form
AlreadyRunning(e) == IF e = "AISTPipelineRunForm" THEN "form_error" ELSE "405"

\* the has_unfinished_pipeline check of entry point e with every outcome passed
\* on to the creation of the pipeline
ManualStartCheckPasses(e, pv) ==
    /\ starts.pc = "idle"
    /\ starts' = [pc |-> "checked", pv |-> pv]
    /\ UNCHANGED schedVars
    /\ UNCHANGED dispVars
    /\ UNCHANGED <<pipelines, tasks, stops, lastSet>>
    /\ UNCHANGED apiVars

\* the has_unfinished_pipeline check of entry point e, up to the point where
\* the answer is decided: already running, or go on to create the pipeline
ManualStartCheck(e, pv) ==
    /\ starts.pc = "idle"
    /\ starts' = IF has_unfinished_pipeline(pv)
                 THEN [pc |-> "rejected", pv |-> pv, answer |-> AlreadyRunning(e)]
                 ELSE [pc |-> "checked", pv |-> pv]
    /\ UNCHANGED schedVars
    /\ UNCHANGED dispVars
    /\ UNCHANGED <<pipelines, tasks, stops, lastSet>>
    /\ UNCHANGED apiVars

\* the rejected request returns: `return Response(status=405)`, or the view
\* renders the invalid form again
ManualStartReject ==
    /\ starts.pc = "rejected"
    /\ starts' = IdleStart
    /\ UNCHANGED schedVars
    /\ UNCHANGED dispVars
    /\ UNCHANGED <<pipelines, tasks, stops, lastSet>>
    /\ UNCHANGED apiVars

\* the broker delivers a run_sast_pipeline message once more (same task id)
Redeliver(t) ==
    /\ t \in DOMAIN tasks
    /\ Len(tasks) < MaxTasks
    /\ tasks' = Append(tasks, NewDelivery(tasks[t].pipeline, tasks[t].tid))
    /\ UNCHANGED schedVars
    /\ UNCHANGED dispVars
    /\ UNCHANGED <<pipelines, starts, stops, lastSet>>
    /\ UNCHANGED apiVars

\* ===========================================================================
\* run_sast_pipeline
\* ===========================================================================

\* lines 76-87: lock the row and re-check; not FINISHED: log and return; no
\* such row: .get() raises with `pipeline` still None, the handler re-raises
TaskLock(t) ==
    /\ t \in DOMAIN tasks
    /\ tasks[t].pc = "queued"
    /\ LET p == tasks[t].pipeline
       IN /\ RowFree(p)
          /\ IF pipelines[p].deleted
             THEN /\ tasks' = [tasks EXCEPT ![t].pc = "failed"]
                  /\ UNCHANGED pipelines
             ELSE IF pipelines[p].status # FINISHED
             THEN /\ tasks' = [tasks EXCEPT ![t].pc = "skipped"]
                  /\ UNCHANGED pipelines
             ELSE /\ tasks' = [tasks EXCEPT ![t].pc = "locked", ![t].mem = pipelines[p].status]
                  /\ pipelines' = [pipelines EXCEPT ![p].lockedBy = t]
    /\ UNCHANGED schedVars
    /\ UNCHANGED dispVars
    /\ UNCHANGED <<starts, stops, lastSet>>
    /\ UNCHANGED apiVars

\* lines 89-94: started, SAST_LAUNCHED, from_dict succeeds, commit
TaskLaunch(t) ==
    /\ t \in DOMAIN tasks
    /\ tasks[t].pc = "locked"
    /\ LET p == tasks[t].pipeline
           rows == SaveStatus(pipelines, p, tasks[t].mem, SAST_LAUNCHED)
       IN /\ pipelines' = [rows EXCEPT ![p].started = TRUE, ![p].lockedBy = NoTask]
          /\ lastSet' = SetCall(p, tasks[t].mem, SAST_LAUNCHED, TRUE)
    /\ tasks' = [tasks EXCEPT ![t].pc = "launched", ![t].mem = SAST_LAUNCHED]
    /\ UNCHANGED schedVars
    /\ UNCHANGED dispVars
    /\ UNCHANGED <<starts, stops>>
    /\ UNCHANGED apiVars

\* lines 89-94 with PipelineArguments.from_dict raising: the block rolls back,
\* the object in memory keeps status SAST_LAUNCHED
TaskLaunchFail(t) ==
    /\ t \in DOMAIN tasks
    /\ tasks[t].pc = "locked"
    /\ LET p == tasks[t].pipeline
       IN /\ pipelines' = [pipelines EXCEPT ![p].lockedBy = NoTask]
          /\ lastSet' = SetCall(p, tasks[t].mem, SAST_LAUNCHED, FALSE)
    /\ tasks' = [tasks EXCEPT ![t].pc = "exc", ![t].mem = SAST_LAUNCHED]
    /\ UNCHANGED schedVars
    /\ UNCHANGED dispVars
    /\ UNCHANGED <<starts, stops>>
    /\ UNCHANGED apiVars

\* lines 96-165: version extraction and configure_project_run_analyses; may raise
TaskBuild(t) ==
    /\ t \in DOMAIN tasks
    /\ tasks[t].pc = "launched"
    /\ \/ tasks' = [tasks EXCEPT ![t].pc = "built"]
       \/ tasks' = [tasks EXCEPT ![t].pc = "exc"]
    /\ UNCHANGED schedVars
    /\ UNCHANGED dispVars
    /\ UNCHANGED <<pipelines, starts, stops, lastSet>>
    /\ UNCHANGED apiVars

\* lines 167-174: re-read under lock, launch_data, UPLOADING_RESULTS
TaskSetUploading(t) ==
    /\ t \in DOMAIN tasks
    /\ tasks[t].pc = "built"
    /\ LET p == tasks[t].pipeline
           fresh == pipelines[p].status
       IN /\ RowFree(p)
          /\ pipelines' = SaveStatus(pipelines, p, fresh, UPLOADING_RESULTS)
          /\ lastSet' = SetCall(p, fresh, UPLOADING_RESULTS, TRUE)
    /\ tasks' = [tasks EXCEPT ![t].pc = "uploading", ![t].mem = UPLOADING_RESULTS]
    /\ UNCHANGED schedVars
    /\ UNCHANGED dispVars
    /\ UNCHANGED <<starts, stops>>
    /\ UNCHANGED apiVars

\* lines 180-204: upload_results_internal and the finding lookup; either raises,
\* or there are findings, or none
TaskUpload(t) ==
    /\ t \in DOMAIN tasks
    /\ tasks[t].pc = "uploading"
    /\ \/ tasks' = [tasks EXCEPT ![t].pc = "nofindings"]
       \/ tasks' = [tasks EXCEPT ![t].pc = "findings"]
       \/ tasks' = [tasks EXCEPT ![t].pc = "exc"]
    /\ UNCHANGED schedVars
    /\ UNCHANGED dispVars
    /\ UNCHANGED <<pipelines, starts, stops, lastSet>>
    /\ UNCHANGED apiVars

\* lines 205-210: no findings: re-read under lock and finish_pipeline
TaskFinishNoFindings(t) ==
    /\ t \in DOMAIN tasks
    /\ tasks[t].pc = "nofindings"
    /\ LET p == tasks[t].pipeline
           fresh == pipelines[p].status
       IN /\ RowFree(p)
          /\ pipelines' = SaveStatus(pipelines, p, fresh, FINISHED)
          /\ lastSet' = finish_pipeline(p, fresh, TRUE)
    /\ tasks' = [tasks EXCEPT ![t].pc = "done", ![t].mem = FINISHED]
    /\ UNCHANGED schedVars
    /\ UNCHANGED dispVars
    /\ UNCHANGED <<starts, stops>>
    /\ UNCHANGED apiVars

\* lines 212-216 and postprocess_findings: FINDING_POSTPROCESSING is committed,
\* then the chord is built and replaces the task (Ignore), or building it raises
TaskPostprocess(t) ==
    /\ t \in DOMAIN tasks
    /\ tasks[t].pc = "findings"
    /\ LET p == tasks[t].pipeline
           fresh == pipelines[p].status
       IN /\ RowFree(p)
          /\ pipelines' = SaveStatus(pipelines, p, fresh, FINDING_POSTPROCESSING)
          /\ lastSet' = SetCall(p, fresh, FINDING_POSTPROCESSING, TRUE)
    /\ \/ tasks' = [tasks EXCEPT ![t].pc = "replaced", ![t].mem = FINISHED]
       \/ tasks' = [tasks EXCEPT ![t].pc = "exc"]
    /\ UNCHANGED schedVars
    /\ UNCHANGED dispVars
    /\ UNCHANGED <<starts, stops>>
    /\ UNCHANGED apiVars

\* lines 219-227 with a handler that only logs and re-raises
TaskSwallowException(t) ==
    /\ t \in DOMAIN tasks
    /\ tasks[t].pc = "exc"
    /\ tasks' = [tasks EXCEPT ![t].pc = "failed", ![t].mem = FINISHED]
    /\ UNCHANGED schedVars
    /\ UNCHANGED dispVars
    /\ UNCHANGED <<pipelines, starts, stops, lastSet>>
    /\ UNCHANGED apiVars

\* lines 219-227: finish_pipeline on the object the task holds, then re-raise
TaskHandleException(t) ==
    /\ t \in DOMAIN tasks
    /\ tasks[t].pc = "exc"
    /\ LET p == tasks[t].pipeline
       IN /\ set_pipeline_status(tasks[t].mem, FINISHED) => RowFree(p)
          /\ pipelines' = SaveStatus(pipelines, p, tasks[t].mem, FINISHED)
          /\ lastSet' = finish_pipeline(p, tasks[t].mem, TRUE)
    /\ tasks' = [tasks EXCEPT ![t].pc = "failed", ![t].mem = FINISHED]
    /\ UNCHANGED schedVars
    /\ UNCHANGED dispVars
    /\ UNCHANGED <<starts, stops>>
    /\ UNCHANGED apiVars

\* ===========================================================================
\* stop_pipeline and its callers (stop_pipeline_view, PipelineStopAPI.post)
\* ===========================================================================

\* the caller's get_object_or_404: a plain read of the row into memory
StopRead(p) ==
    /\ stops.pc = "idle"
    /\ p \in DOMAIN pipelines
    /\ stops' = [pc |-> "read", pipeline |-> p, mem |-> pipelines[p].status,
                 run_task_id |-> pipelines[p].run_task_id]
    /\ UNCHANGED schedVars
    /\ UNCHANGED dispVars
    /\ UNCHANGED <<pipelines, tasks, starts, lastSet>>
    /\ UNCHANGED apiVars

\* deliveries _revoke_task(run_id) can still terminate
Revocable(run_id) ==
    {t \in DOMAIN tasks : tasks[t].tid = run_id /\ run_id # NoTask /\ ~TaskEnded(t)}

\* stop_pipeline: revoke (which may or may not preempt a delivery), clear the
\* handles on the object, finish_pipeline on the object read by the caller
stop_pipeline ==
    /\ stops.pc = "read"
    /\ LET p == stops.pipeline
       IN \E K \in SUBSET Revocable(stops.run_task_id) :
            LET unlocked == [pipelines EXCEPT ![p].lockedBy =
                                 IF @ \in K THEN NoTask ELSE @]
            IN /\ set_pipeline_status(stops.mem, FINISHED) => unlocked[p].lockedBy = NoTask
               /\ pipelines' = SaveStatus(unlocked, p, stops.mem, FINISHED)
               /\ tasks' = [t \in DOMAIN tasks |->
                              IF t \in K THEN [tasks[t] EXCEPT !.pc = "revoked", !.mem = FINISHED]
                              ELSE tasks[t]]
               /\ lastSet' = finish_pipeline(p, stops.mem, TRUE)
         /\ stops' = IdleStop
    /\ UNCHANGED schedVars
    /\ UNCHANGED dispVars
    /\ UNCHANGED <<starts>>
    /\ UNCHANGED apiVars

\* ===========================================================================
\* Deleting a pipeline
\* ===========================================================================

\* PipelineAPI.delete: 400 unless the row is FINISHED, else p.delete()
PipelineAPI_delete(p) ==
    /\ p \in DOMAIN pipelines
    /\ ~pipelines[p].deleted
    /\ RowFree(p)
    /\ IF pipelines[p].status # FINISHED
       THEN UNCHANGED pipelines
       ELSE pipelines' = [pipelines EXCEPT ![p].deleted = TRUE]
    /\ UNCHANGED schedVars
    /\ UNCHANGED dispVars
    /\ UNCHANGED <<tasks, starts, stops, lastSet>>
    /\ UNCHANGED apiVars

\* delete_pipeline_view, POST: pipeline.delete(), whatever the status
delete_pipeline_view(p) ==
    /\ p \in DOMAIN pipelines
    /\ ~pipelines[p].deleted
    /\ RowFree(p)
    /\ pipelines' = [pipelines EXCEPT ![p].deleted = TRUE]
    /\ UNCHANGED schedVars
    /\ UNCHANGED dispVars
    /\ UNCHANGED <<tasks, starts, stops, lastSet>>
    /\ UNCHANGED apiVars

\* ===========================================================================
\* Manual set-status, AI push, AI callback
\* ===========================================================================

\* pipeline_set_status: lock the row, set WAITING_CONFIRMATION_TO_PUSH_TO_AI
pipeline_set_status(p) ==
    /\ p \in DOMAIN pipelines
    /\ RowFree(p)
    /\ pipelines' = SaveStatus(pipelines, p, pipelines[p].status, WAITING_CONFIRMATION_TO_PUSH_TO_AI)
    /\ lastSet' = SetCall(p, pipelines[p].status, WAITING_CONFIRMATION_TO_PUSH_TO_AI, TRUE)
    /\ UNCHANGED schedVars
    /\ UNCHANGED dispVars
    /\ UNCHANGED <<tasks, starts, stops>>
    /\ UNCHANGED apiVars

\* send_request_to_ai_for_pipeline, lines 49-63: under the lock, only a row
\* waiting for confirmation moves to PUSH_TO_AI; any other status answers 400
send_request_to_ai_for_pipeline(p) ==
    /\ p \in DOMAIN pipelines
    /\ RowFree(p)
    /\ IF pipelines[p].status # WAITING_CONFIRMATION_TO_PUSH_TO_AI
       THEN UNCHANGED <<pipelines, lastSet>>
       ELSE /\ pipelines' = SaveStatus(pipelines, p, pipelines[p].status, PUSH_TO_AI)
            /\ lastSet' = SetCall(p, pipelines[p].status, PUSH_TO_AI, TRUE)
    /\ UNCHANGED schedVars
    /\ UNCHANGED dispVars
    /\ UNCHANGED <<tasks, starts, stops>>
    /\ UNCHANGED apiVars

\* pipeline_callback: lock the row, store the response, finish_pipeline
pipeline_callback(p) ==
    /\ p \in DOMAIN pipelines
    /\ RowFree(p)
    /\ pipelines' = SaveStatus(pipelines, p, pipelines[p].status, FINISHED)
    /\ lastSet' = finish_pipeline(p, pipelines[p].status, TRUE)
    /\ UNCHANGED schedVars
    /\ UNCHANGED dispVars
    /\ UNCHANGED <<tasks, starts, stops>>
    /\ UNCHANGED apiVars

\* ===========================================================================
\* Schedule API: upsert and delete
\* ===========================================================================

\* launch configurations and the project each belongs to: two of project 1,
\* one of project 2
LaunchConfigs == {1, 2, 3}
CfgProject(c) == IF c = 3 THEN 2 ELSE 1

\* .filter(launch_config__project=project): the rows of the project's schedules
ProjectSchedules(project) ==
    {i \in DOMAIN schedules : CfgProject(schedules[i].launch_config) = project}

\* .filter(launch_config=launch_config): the rows of one launch configuration
ConfigSchedules(c) ==
    {i \in DOMAIN schedules : schedules[i].launch_config = c}

\* {"ok": True, "created": created, "schedule": LaunchScheduleSerializer(obj).data}
UpsertReply(created, i, c) ==
    [api |-> "upsert", created |-> created, schedule |-> i, launch_config |-> c]

\* the upsert looking for the existing row by launch configuration
UpsertByLaunchConfig(project, c, cron, en, cap) ==
    /\ CfgProject(c) = project
    /\ LET mine == ConfigSchedules(c)
       IN IF mine = {}
          THEN /\ schedules' = Append(schedules,
                      [launch_config |-> c, cron_expression |-> cron, enabled |-> en,
                       max_concurrent_per_worker |-> cap, last_run_at |-> NoneTime])
               /\ reply' = UpsertReply(TRUE, Len(schedules) + 1, c)
          ELSE LET i == CHOOSE x \in mine : \A y \in mine : x <= y
               IN /\ schedules' = [schedules EXCEPT ![i].cron_expression = cron,
                                                    ![i].enabled = en,
                                                    ![i].max_concurrent_per_worker = cap,
                                                    ![i].launch_config = c]
                  /\ reply' = UpsertReply(FALSE, i, c)
    /\ UNCHANGED <<now, queue, stPc, stNow, stTodo, stRows, enqLog, lastDecision>>
    /\ UNCHANGED dispVars
    /\ UNCHANGED pipeVars
    /\ UNCHANGED <<stream, push>>

\* ProjectLaunchScheduleUpsertAPI.post for launch configuration c of the
\* project: under the lock, the first schedule of the project is updated and
\* pointed at c, or, the project having none, a schedule is created
ProjectLaunchScheduleUpsertAPI_post(project, c, cron, en, cap) ==
    /\ CfgProject(c) = project
    /\ LET mine == ProjectSchedules(project)
       IN IF mine = {}
          THEN /\ schedules' = Append(schedules,
                      [launch_config |-> c, cron_expression |-> cron, enabled |-> en,
                       max_concurrent_per_worker |-> cap, last_run_at |-> NoneTime])
               /\ reply' = UpsertReply(TRUE, Len(schedules) + 1, c)
          ELSE LET i == CHOOSE x \in mine : \A y \in mine : x <= y
               IN /\ schedules' = [schedules EXCEPT ![i].cron_expression = cron,
                                                    ![i].enabled = en,
                                                    ![i].max_concurrent_per_worker = cap,
                                                    ![i].launch_config = c]
                  /\ reply' = UpsertReply(FALSE, i, c)
    /\ UNCHANGED <<now, queue, stPc, stNow, stTodo, stRows, enqLog, lastDecision>>
    /\ UNCHANGED dispVars
    /\ UNCHANGED pipeVars
    /\ UNCHANGED <<stream, push>>

\* LaunchScheduleDetailAPI.delete: obj.delete(), 204
LaunchScheduleDetailAPI_delete(i) ==
    /\ i \in DOMAIN schedules
    /\ schedules' = SubSeq(schedules, 1, i - 1) \o SubSeq(schedules, i + 1, Len(schedules))
    /\ reply' = [api |-> "delete"]
    /\ UNCHANGED <<now, queue, stPc, stNow, stTodo, stRows, enqLog, lastDecision>>
    /\ UNCHANGED dispVars
    /\ UNCHANGED pipeVars
    /\ UNCHANGED <<stream, push>>

\* ===========================================================================
\* Pipeline status stream (server-sent events)
\* ===========================================================================

\* pipeline_status_stream, lines 18-27: 404 unless the row exists, then the
\* generator starts with last_status = None
pipeline_status_stream(p) ==
    /\ stream.pc = "closed"
    /\ p \in DOMAIN pipelines
    /\ ~pipelines[p].deleted
    /\ stream' = [NoStream EXCEPT !.pc = "view", !.pipeline = p]
    /\ UNCHANGED schedVars
    /\ UNCHANGED dispVars
    /\ UNCHANGED pipeVars
    /\ UNCHANGED <<reply, push>>

\* one turn of its loop, lines 30-65: re-fetch the row; a status other than
\* last_status is sent as a status event, and FINISHED is followed at once by
\* the done event and the end of the stream
StreamTurn ==
    /\ stream.pc = "view"
    /\ LET obj == pipelines[stream.pipeline]
       IN stream' =
            IF obj.deleted
            THEN [stream EXCEPT !.pc = "done", !.events = Append(@, "done")]
            ELSE IF obj.status # stream.last_status
            THEN IF obj.status = FINISHED
                 THEN [stream EXCEPT !.last_status = obj.status, !.pc = "done",
                                     !.events = @ \o <<obj.status, "done">>]
                 ELSE [stream EXCEPT !.last_status = obj.status,
                                     !.events = Append(@, obj.status)]
            ELSE stream
    /\ UNCHANGED schedVars
    /\ UNCHANGED dispVars
    /\ UNCHANGED pipeVars
    /\ UNCHANGED <<reply, push>>

\* pipeline_status_stream_response: the generator of the REST stream starts
pipeline_status_stream_response(p) ==
    /\ stream.pc = "closed"
    /\ p \in DOMAIN pipelines
    /\ stream' = [NoStream EXCEPT !.pc = "api", !.pipeline = p]
    /\ UNCHANGED schedVars
    /\ UNCHANGED dispVars
    /\ UNCHANGED pipeVars
    /\ UNCHANGED <<reply, push>>

\* one turn of its loop, lines 503-535: a status other than last_status is
\* sent, FINISHED sets done_at six seconds ahead; a done_at set in an earlier
\* turn, once reached, sends the done event and ends the stream, whatever the
\* status is by then
StreamTurnApi ==
    /\ stream.pc = "api"
    /\ LET obj == pipelines[stream.pipeline]
           sent == IF obj.status # stream.last_status
                   THEN [stream EXCEPT !.last_status = obj.status,
                                       !.events = Append(@, obj.status),
                                       !.done_at = @ \/ obj.status = FINISHED]
                   ELSE stream
       IN IF obj.deleted
          THEN stream' = [stream EXCEPT !.pc = "done", !.events = Append(@, "done")]
          ELSE \/ stream' = sent
               \/ /\ stream.done_at
                  /\ stream' = [sent EXCEPT !.pc = "done", !.events = Append(@, "done")]
    /\ UNCHANGED schedVars
    /\ UNCHANGED dispVars
    /\ UNCHANGED pipeVars
    /\ UNCHANGED <<reply, push>>

\* ===========================================================================
\* AI push requests, one step per transaction
\* ===========================================================================

\* lines 49-61 setting PUSH_TO_AI without looking at the status
AiPushUnchecked(r, p) ==
    /\ push.reqs[r].pc = "idle"
    /\ p \in DOMAIN pipelines
    /\ RowFree(p)
    /\ pipelines' = SaveStatus(pipelines, p, pipelines[p].status, PUSH_TO_AI)
    /\ lastSet' = SetCall(p, pipelines[p].status, PUSH_TO_AI, TRUE)
    /\ push' = [push EXCEPT !.reqs[r] = [pc |-> "committed", pipeline |-> p]]
    /\ UNCHANGED schedVars
    /\ UNCHANGED dispVars
    /\ UNCHANGED <<tasks, starts, stops>>
    /\ UNCHANGED <<reply, stream>>

\* send_request_to_ai_for_pipeline of client r, lines 49-61: the transaction
\* that locks the row: 400 unless it waits for confirmation, else PUSH_TO_AI
AiPushTransaction(r, p) ==
    /\ push.reqs[r].pc = "idle"
    /\ p \in DOMAIN pipelines
    /\ RowFree(p)
    /\ IF pipelines[p].status # WAITING_CONFIRMATION_TO_PUSH_TO_AI
       THEN /\ push' = [push EXCEPT !.reqs[r] = [pc |-> "rejected", pipeline |-> p]]
            /\ UNCHANGED <<pipelines, lastSet>>
       ELSE /\ pipelines' = SaveStatus(pipelines, p, pipelines[p].status, PUSH_TO_AI)
            /\ lastSet' = SetCall(p, pipelines[p].status, PUSH_TO_AI, TRUE)
            /\ push' = [push EXCEPT !.reqs[r] = [pc |-> "committed", pipeline |-> p]]
    /\ UNCHANGED schedVars
    /\ UNCHANGED dispVars
    /\ UNCHANGED <<tasks, starts, stops>>
    /\ UNCHANGED <<reply, stream>>

\* line 63, after the commit: push_request_to_ai.delay(pipeline.id, ...), 200
AiPushDelay(r) ==
    /\ push.reqs[r].pc = "committed"
    /\ push' = [push EXCEPT !.reqs[r].pc = "done",
                            !.queued = Append(@, push.reqs[r].pipeline)]
    /\ UNCHANGED schedVars
    /\ UNCHANGED dispVars
    /\ UNCHANGED pipeVars
    /\ UNCHANGED <<reply, stream>>

\* ===========================================================================
\* Initial states and specifications
\* ===========================================================================

\* everything except the schedule rows and launch configurations
InitCommon ==
    /\ now = 0
    /\ queue = <<>>
    /\ stPc = "idle"
    /\ stNow = 0
    /\ stTodo = <<>>
    /\ stRows = schedules
    /\ enqLog = <<>>
    /\ lastDecision = [s \in Schedules |-> NoDecision]
    /\ dPc = "idle"
    /\ dRunning = <<>>
    /\ dItems = <<>>
    /\ dSnap = <<>>
    /\ dLog = <<>>
    /\ admitLog = <<>>
    /\ other = IdleTick
    /\ pipelines = <<>>
    /\ tasks = <<>>
    /\ starts = IdleStart
    /\ stops = IdleStop
    /\ lastSet = NoSetCall
    /\ reply = NoReply
    /\ stream = NoStream
    /\ push = NoPush

\* Scheduler Tick: schedules never fired, enabled or not, any cron expression
SchedInit ==
    /\ schedules \in [Schedules -> [enabled : BOOLEAN,
                                    cron_expression : CronPeriods \cup {InvalidCron},
                                    max_concurrent_per_worker : {1},
                                    last_run_at : {NoneTime}]]
    /\ InitCommon

SchedNext ==
    \/ ClockTick
    \/ SchedTickStart
    \/ SchedTickBody
    \/ SchedTickSave
    \/ SchedTickEnd

SchedSpec == SchedInit /\ [][SchedNext]_vars

\* Scheduler Ticks that overlap or fail on a write: two enabled schedules
\* that never fired, one per period
SchedFaultInit ==
    /\ schedules = [s \in Schedules |->
           [enabled |-> TRUE, cron_expression |-> s + 1,
            max_concurrent_per_worker |-> 1, last_run_at |-> NoneTime]]
    /\ InitCommon

SchedFaultNext ==
    \/ ClockTick
    \/ SchedTickStart
    \/ SchedTickBody
    \/ SchedTickSave
    \/ SchedTickEnd
    \/ SchedTickCrash
    \/ OtherSchedTick

SchedFaultSpec == SchedFaultInit /\ [][SchedFaultNext]_vars

\* Dispatcher Tick: schedules with any limit, enabled or not (the limit of a
\* disabled schedule is never read); entries arrive through run-once
DispInit ==
    /\ schedules \in [Schedules -> [enabled : BOOLEAN,
                                    cron_expression : {2},
                                    max_concurrent_per_worker : Limits,
                                    last_run_at : {NoneTime}]]
    /\ \A s \in Schedules : schedules[s].enabled \/ schedules[s].max_concurrent_per_worker = 1
    /\ InitCommon

DispNext ==
    \/ \E s \in Schedules, dt \in 0..1 : RunOnce(s, dt)
    \/ DispStart
    \/ DispSkip
    \/ DispRefuse
    \/ DispParamsFail
    \/ DispAdmit
    \/ DispEnd

DispSpec == DispInit /\ [][DispNext]_vars

\* Dispatcher Tick over a queue that also holds rows without a schedule: one
\* enabled schedule with limit 1, one disabled schedule
OrphanInit ==
    /\ schedules = [s \in Schedules |->
           [enabled |-> (s = 1), cron_expression |-> 2,
            max_concurrent_per_worker |-> 1, last_run_at |-> NoneTime]]
    /\ InitCommon

OrphanNext ==
    \/ \E s \in Schedules, dt \in 0..1 : RunOnce(s, dt)
    \/ \E dt \in 0..1 : EnqueueWithoutSchedule(dt)
    \/ DispStart
    \/ DispSkip
    \/ DispRefuse
    \/ DispParamsFail
    \/ DispAdmit
    \/ DispEnd

OrphanSpec == OrphanInit /\ [][OrphanNext]_vars

\* Dispatcher Ticks that overlap or die half way through an admission: one
\* enabled schedule with limit 1, one disabled schedule
RaceInit ==
    /\ schedules = [s \in Schedules |->
           [enabled |-> (s = 1), cron_expression |-> 2,
            max_concurrent_per_worker |-> 1, last_run_at |-> NoneTime]]
    /\ InitCommon

RaceNext ==
    \/ \E s \in Schedules, dt \in 0..1 : RunOnce(s, dt)
    \/ DispStart
    \/ DispSkip
    \/ DispRefuse
    \/ DispParamsFail
    \/ DispAdmit
    \/ DispAdmitCrash
    \/ DispEnd
    \/ OtherTickStart
    \/ OtherTickItem
    \/ OtherTickEnd

RaceSpec == RaceInit /\ [][RaceNext]_vars

\* Pipeline lifecycle: manual starts, task deliveries, stop, set-status, AI
PipeInit ==
    /\ schedules = [s \in Schedules |->
           [enabled |-> TRUE, cron_expression |-> 2,
            max_concurrent_per_worker |-> 1, last_run_at |-> NoneTime]]
    /\ InitCommon

PipeNext ==
    \/ \E pv \in Versions : StartCheck(pv)
    \/ StartCreate(1)
    \/ \E t \in DOMAIN tasks : Redeliver(t)
    \/ \E t \in DOMAIN tasks : TaskLock(t)
    \/ \E t \in DOMAIN tasks : TaskLaunch(t)
    \/ \E t \in DOMAIN tasks : TaskLaunchFail(t)
    \/ \E t \in DOMAIN tasks : TaskBuild(t)
    \/ \E t \in DOMAIN tasks : TaskSetUploading(t)
    \/ \E t \in DOMAIN tasks : TaskUpload(t)
    \/ \E t \in DOMAIN tasks : TaskFinishNoFindings(t)
    \/ \E t \in DOMAIN tasks : TaskPostprocess(t)
    \/ \E t \in DOMAIN tasks : TaskHandleException(t)
    \/ \E p \in DOMAIN pipelines : StopRead(p)
    \/ stop_pipeline
    \/ \E p \in DOMAIN pipelines : pipeline_set_status(p)
    \/ \E p \in DOMAIN pipelines : send_request_to_ai_for_pipeline(p)
    \/ \E p \in DOMAIN pipelines : pipeline_callback(p)

PipeSpec == PipeInit /\ [][PipeNext]_vars

\* Manual starts of several runs of one project version, each run by its task
StartNext ==
    \/ \E pv \in Versions : StartCheck(pv)
    \/ StartCreate(MaxPipelines)
    \/ \E t \in DOMAIN tasks : TaskLock(t)
    \/ \E t \in DOMAIN tasks : TaskLaunch(t)
    \/ \E t \in DOMAIN tasks : TaskLaunchFail(t)
    \/ \E t \in DOMAIN tasks : TaskBuild(t)
    \/ \E t \in DOMAIN tasks : TaskSetUploading(t)
    \/ \E t \in DOMAIN tasks : TaskUpload(t)
    \/ \E t \in DOMAIN tasks : TaskFinishNoFindings(t)
    \/ \E t \in DOMAIN tasks : TaskPostprocess(t)
    \/ \E t \in DOMAIN tasks : TaskHandleException(t)

StartSpec == PipeInit /\ [][StartNext]_vars

\* Manual starts through each entry point, with the answer of a rejected
\* request kept until it returns
ManualStartNext ==
    \/ \E e \in EntryPoints, pv \in Versions : ManualStartCheck(e, pv)
    \/ ManualStartReject
    \/ StartCreate(MaxPipelines)
    \/ \E t \in DOMAIN tasks : TaskLock(t)
    \/ \E t \in DOMAIN tasks : TaskLaunch(t)
    \/ \E t \in DOMAIN tasks : TaskLaunchFail(t)
    \/ \E t \in DOMAIN tasks : TaskBuild(t)
    \/ \E t \in DOMAIN tasks : TaskSetUploading(t)
    \/ \E t \in DOMAIN tasks : TaskUpload(t)
    \/ \E t \in DOMAIN tasks : TaskFinishNoFindings(t)
    \/ \E t \in DOMAIN tasks : TaskPostprocess(t)
    \/ \E t \in DOMAIN tasks : TaskHandleException(t)

ManualStartSpec == PipeInit /\ [][ManualStartNext]_vars

\* Deletes through both entry points while a run is started, launched and
\* built by its task
DeleteNext ==
    \/ \E pv \in Versions : StartCheck(pv)
    \/ StartCreate(MaxPipelines)
    \/ \E t \in DOMAIN tasks : TaskLock(t)
    \/ \E t \in DOMAIN tasks : TaskLaunch(t)
    \/ \E t \in DOMAIN tasks : TaskBuild(t)
    \/ \E p \in DOMAIN pipelines : PipelineAPI_delete(p)
    \/ \E p \in DOMAIN pipelines : delete_pipeline_view(p)

DeleteSpec == PipeInit /\ [][DeleteNext]_vars

\* Schedule API: no schedule yet; upserts with any validated payload, deletes
UpsertInit ==
    /\ schedules = <<>>
    /\ InitCommon

UpsertNext ==
    \/ \E c \in LaunchConfigs, cron \in CronPeriods, en \in BOOLEAN, cap \in Limits \ {0} :
          ProjectLaunchScheduleUpsertAPI_post(CfgProject(c), c, cron, en, cap)
    \/ \E i \in DOMAIN schedules : LaunchScheduleDetailAPI_delete(i)

UpsertSpec == UpsertInit /\ [][UpsertNext]_vars

\* One manually started run and one client of either status stream
StreamNext ==
    \/ \E pv \in Versions : StartCheck(pv)
    \/ StartCreate(1)
    \/ \E t \in DOMAIN tasks : TaskLock(t)
    \/ \E t \in DOMAIN tasks : TaskLaunch(t)
    \/ \E t \in DOMAIN tasks : TaskLaunchFail(t)
    \/ \E t \in DOMAIN tasks : TaskBuild(t)
    \/ \E t \in DOMAIN tasks : TaskSetUploading(t)
    \/ \E t \in DOMAIN tasks : TaskUpload(t)
    \/ \E t \in DOMAIN tasks : TaskFinishNoFindings(t)
    \/ \E t \in DOMAIN tasks : TaskPostprocess(t)
    \/ \E t \in DOMAIN tasks : TaskHandleException(t)
    \/ \E p \in DOMAIN pipelines : pipeline_status_stream(p)
    \/ StreamTurn
    \/ \E p \in DOMAIN pipelines : pipeline_status_stream_response(p)
    \/ StreamTurnApi

StreamSpec == PipeInit /\ [][StreamNext]_vars

\* Scheduler Ticks with run-once requests arriving at any moment: schedule 1
\* enabled with a valid expression, schedule 2 enabled or not, valid or not
RunOnceInit ==
    /\ schedules \in [Schedules -> [enabled : BOOLEAN,
                                    cron_expression : {InvalidCron} \cup CronPeriods,
                                    max_concurrent_per_worker : {1},
                                    last_run_at : {NoneTime}]]
    /\ schedules[1].enabled
    /\ schedules[1].cron_expression = 2
    /\ schedules[2].cron_expression # 2
    /\ InitCommon

RunOnceNext ==
    \/ ClockTick
    \/ SchedTickStart
    \/ SchedTickBody
    \/ SchedTickSave
    \/ SchedTickEnd
    \/ \E s \in Schedules : RunOnce(s, 0)

RunOnceSpec == RunOnceInit /\ [][RunOnceNext]_vars

\* One run brought to the confirmation wait by pipeline_set_status, two
\* clients that each send one push request, the AI callback
PushNext ==
    \/ \E pv \in Versions : StartCheck(pv)
    \/ StartCreate(1)
    \/ \E t \in DOMAIN tasks : TaskLock(t)
    \/ \E t \in DOMAIN tasks : TaskLaunch(t)
    \/ \E p \in DOMAIN pipelines : pipeline_set_status(p)
    \/ \E p \in DOMAIN pipelines : pipeline_callback(p)
    \/ \E r \in Requests, p \in DOMAIN pipelines : AiPushTransaction(r, p)
    \/ \E r \in Requests : AiPushDelay(r)

PushSpec == PipeInit /\ [][PushNext]_vars

\* whether the params of the entry's launch configuration normalise and name
\* an existing project version (lines 93-96): a fact of the stored rows, the
\* same at every tick
ParamsResolve(item) == schedules[queue[item.id].launch_config].params_ok

\* lines 93-104 with `break` in place of `continue`
DispParamsFailStops ==
    /\ dPc = "loop"
    /\ dItems # <<>>
    /\ Head(dItems).schedule # NoSchedule
    /\ ~ParamsResolve(Head(dItems))
    /\ LET item == Head(dItems)
       IN /\ item.schedule # NoSchedule /\ item.enabled /\ item.limit >= 1
          /\ dRunning = <<>> \/ available_worker(dRunning, item.limit)
          /\ dLog' = Append(dLog, DispEvent("fail", item))
    /\ dItems' = <<>>
    /\ UNCHANGED <<dPc, dRunning, dSnap, admitLog, other>>
    /\ UNCHANGED schedVars
    /\ UNCHANGED pipeVars
    /\ UNCHANGED apiVars

\* lines 93-104 for an entry whose params do not resolve: log and continue
DispParamsFailUnresolved ==
    /\ dPc = "loop"
    /\ dItems # <<>>
    /\ Head(dItems).schedule # NoSchedule
    /\ ~ParamsResolve(Head(dItems))
    /\ DispParamsFail

\* lines 93-131 for an entry whose params resolve: the try block passes and the
\* entry is dispatched
DispAdmitResolved ==
    /\ dPc = "loop"
    /\ dItems # <<>>
    /\ Head(dItems).schedule # NoSchedule
    /\ ParamsResolve(Head(dItems))
    /\ DispAdmit

\* Dispatcher Ticks repeated for ever: schedule 1 enabled with cap 2 and
\* resolvable params; schedule 2 enabled with cap 1 (params resolvable or not),
\* enabled with the invalid cap 0, or disabled
FairInit ==
    /\ schedules \in [Schedules -> [enabled : BOOLEAN,
                                    cron_expression : {2},
                                    max_concurrent_per_worker : Limits,
                                    last_run_at : {NoneTime},
                                    params_ok : BOOLEAN]]
    /\ schedules[1].enabled /\ schedules[1].params_ok
    /\ schedules[1].max_concurrent_per_worker = 2
    /\ \/ schedules[2].enabled /\ schedules[2].max_concurrent_per_worker = 1
       \/ /\ schedules[2].params_ok
          /\ schedules[2].enabled = (schedules[2].max_concurrent_per_worker = 0)
    /\ InitCommon

FairNext ==
    \/ \E s \in Schedules : RunOnce(s, 0)
    \/ EnqueueWithoutSchedule(0)
    \/ DispStart
    \/ DispSkip
    \/ DispRefuse
    \/ DispParamsFailUnresolved
    \/ DispAdmitResolved
    \/ DispEnd

\* the beat scheduler starts the task again and again, and a started task runs
\* its loop to the end
FairSpec ==
    /\ FairInit
    /\ [][FairNext]_vars
    /\ WF_vars(DispStart)
    /\ WF_vars(DispSkip)
    /\ WF_vars(DispRefuse)
    /\ WF_vars(DispParamsFailUnresolved)
    /\ WF_vars(DispAdmitResolved)
    /\ WF_vars(DispEnd)

\* ===========================================================================
\* Properties
\* ===========================================================================

Unfinished(pv) ==
    {p \in DOMAIN pipelines :
        /\ ~pipelines[p].deleted
        /\ pipelines[p].project_version = pv /\ pipelines[p].status # FINISHED}

\* C1: in every reachable state, each project version has at most one pipeline
\* whose status is not FINISHED.
C1_OneUnfinishedPerVersion ==
    \A pv \in Versions : Cardinality(Unfinished(pv)) <= 1

\* C2: a Scheduler Tick creates at most one queue entry per schedule and due
\* tick: no <<schedule, due tick>> is enqueued twice by non-overlapping ticks.
C2_AtMostOneEntryPerDueTick ==
    \A i, j \in DOMAIN enqLog : i # j => enqLog[i] # enqLog[j]

\* a later tick found the due tick it had already enqueued for, and skipped it
C2_Witness ==
    \E s \in Schedules :
        /\ lastDecision[s].kind = "notdue"
        /\ <<s, lastDecision[s].due>> \in Range(enqLog)

\* C3: within one Dispatcher Tick entries are admitted in non-decreasing
\* created order, and after an entry was refused for lack of capacity no
\* later entry is admitted in that tick.
C3_FifoAndStopAtWall ==
    \A i, j \in DOMAIN dLog :
        i < j =>
            /\ (dLog[i].kind = "admit" /\ dLog[j].kind = "admit")
                   => dLog[i].created <= dLog[j].created
            /\ dLog[i].kind = "refuse" => dLog[j].kind # "admit"

\* the tick stopped at a refused entry although a later queued entry of an
\* enabled schedule with a higher cap still had a worker below its cap
C3_Witness ==
    /\ dLog # <<>>
    /\ dLog[Len(dLog)].kind = "refuse"
    /\ dItems = <<>>
    /\ \E j \in Undispatched :
          /\ j # dLog[Len(dLog)].id
          /\ queue[j].created >= dLog[Len(dLog)].created
          /\ schedules[queue[j].schedule].enabled
          /\ available_worker(dRunning, schedules[queue[j].schedule].max_concurrent_per_worker)

StatusRank(st) ==
    CASE st = SAST_LAUNCHED -> 1
      [] st = FINDING_POSTPROCESSING -> 2
      [] st = UPLOADING_RESULTS -> 3
      [] st = WAITING_CONFIRMATION_TO_PUSH_TO_AI -> 4
      [] st = PUSH_TO_AI -> 5
      [] st = WAITING_RESULT_FROM_AI -> 6
      [] st = FINISHED -> 7

\* C5: no write moves a started run from a later status of the lifecycle
\* order back to an earlier one.
C5_StatusNeverRegresses ==
    [][\A p \in DOMAIN pipelines :
          pipelines[p].started
              => StatusRank(pipelines'[p].status) >= StatusRank(pipelines[p].status)]_vars

\* C6: when stop_pipeline returns, the stored status of its pipeline is FINISHED.
C6_StopLeavesFinished ==
    [][(stops.pc = "read" /\ stops'.pc = "idle")
          => pipelines'[stops.pipeline].status = FINISHED]_vars

\* C7: a set_pipeline_status call whose requested status equals the object's
\* current status saves nothing and registers no notification; any other call
\* saves once and registers one notification.
C7_SetStatusIdempotent ==
    lastSet.pipeline # NoPipeline =>
        /\ lastSet.same => (~lastSet.saved /\ ~lastSet.registered /\ ~lastSet.delivered)
        /\ ~lastSet.same => (lastSet.saved /\ lastSet.registered)

\* the same transition was requested again on a row already in that status
C7_Witness ==
    /\ lastSet.pipeline # NoPipeline
    /\ lastSet.same
    /\ pipelines[lastSet.pipeline].status = WAITING_CONFIRMATION_TO_PUSH_TO_AI

\* C8: a status-changed notification is delivered only for a committed
\* transition, and its old_status is a status that was committed for the row.
C8_DeliveredPairsCommitted ==
    /\ lastSet.delivered => (lastSet.registered /\ lastSet.saved)
    /\ lastSet.delivered => lastSet.old_committed

Locked(p) == {t \in DOMAIN tasks : tasks[t].pipeline = p /\ tasks[t].pc = "locked"}

\* C9: run_sast_pipeline re-checks the status under the row lock: a delivery
\* that finds a status other than FINISHED returns without changing the row,
\* only one delivery at a time is between the re-check and the commit, and a
\* delivery commits SAST_LAUNCHED only on a row that is still FINISHED.
C9_LockedRecheck ==
    /\ [](\A p \in DOMAIN pipelines : Cardinality(Locked(p)) <= 1)
    /\ [][\A t \in DOMAIN tasks :
            LET p == tasks[t].pipeline
            IN /\ (tasks[t].pc = "queued" /\ tasks'[t].pc = "skipped")
                      => (pipelines' = pipelines /\ pipelines[p].status # FINISHED)
               /\ (tasks[t].pc = "queued" /\ tasks'[t].pc = "locked")
                      => pipelines[p].status = FINISHED
               /\ (tasks[t].pc = "locked" /\ tasks'[t].pc = "launched")
                      => (pipelines[p].status = FINISHED /\ pipelines'[p].status = SAST_LAUNCHED)]_vars

\* of two deliveries for one row, one was turned away by the re-check while
\* the other is running the launched pipeline
C9_Witness ==
    \E t, u \in DOMAIN tasks :
        /\ t # u
        /\ tasks[t].pipeline = tasks[u].pipeline
        /\ tasks[t].pc = "skipped"
        /\ tasks[u].pc = "launched"
        /\ pipelines[tasks[u].pipeline].status = SAST_LAUNCHED

\* C11: no queue entry is behind more than one created pipeline and started
\* task, whether Dispatcher Ticks overlap or one fails between creating the
\* pipeline and marking the entry.
C11_EntryDispatchedOnce ==
    \A i, j \in DOMAIN admitLog : i # j => admitLog[i] # admitLog[j]

\* C12: overlapping Scheduler Ticks, or a tick that fails between the append
\* and the last_run_at write followed by another tick, never enqueue twice for
\* the same schedule and due tick.
C12_OneEntryPerDueTickUnderFaults ==
    \A e \in Range(enqLog) : Cardinality({i \in DOMAIN enqLog : enqLog[i] = e}) = 1

\* C18: a persistence failure while processing one schedule leaves the tick
\* running with the remaining schedules still to be processed.
C18_FailureDoesNotBlockTick ==
    [][\A s \in Schedules :
          (lastDecision'[s].kind = "error" /\ lastDecision[s].kind # "error")
              => (stPc' = "loop" /\ stTodo' = Tail(stTodo))]_vars

C14_AbsentOrDisabledSkipped ==
    [][(/\ dPc = "loop" /\ dItems # <<>>
        /\ (Head(dItems).schedule = NoSchedule \/ ~Head(dItems).enabled)
        /\ dItems' # dItems)
          => /\ pipelines' = pipelines
             /\ tasks' = tasks
             /\ queue' = queue
             /\ dRunning' = dRunning
             /\ dLog' = Append(dLog, DispEvent("skip", Head(dItems)))
             /\ dItems' = Tail(dItems)
             /\ dPc' = "loop"]_vars

\* a tick passed over an entry of the disabled schedule and then admitted a
\* later entry
C14_Witness ==
    /\ Len(dLog) = 2
    /\ dLog[1].kind = "skip"
    /\ queue[dLog[1].id].schedule # NoSchedule
    /\ ~schedules[queue[dLog[1].id].schedule].enabled
    /\ ~queue[dLog[1].id].dispatched
    /\ dLog[2].kind = "admit"
    /\ queue[dLog[2].id].dispatched

\* C15: in a tick whose worker map is empty no entry is refused for capacity
\* and the iteration never stops early: every entry of an enabled schedule
\* with cap >= 1 is dispatched unless its parameters fail to resolve.
C15_EmptySnapshotNoCapacityCheck ==
    /\ []((dPc = "loop" /\ dSnap = <<>>)
            => \A k \in DOMAIN dLog : dLog[k].kind # "refuse")
    /\ [][(dPc = "loop" /\ dSnap = <<>> /\ dItems # <<>> /\ dItems' # dItems)
            => LET item == Head(dItems)
                   ev == dLog'[Len(dLog')]
               IN /\ dItems' = Tail(dItems)
                  /\ Len(dLog') = Len(dLog) + 1
                  /\ (item.enabled /\ item.limit >= 1) => ev.kind \in {"admit", "fail"}
                  /\ ev.kind = "admit"
                        => (queue'[item.id].dispatched /\ Len(pipelines') = Len(pipelines) + 1)]_vars

\* with an empty worker map a tick dispatched two entries of cap 1
C15_Witness ==
    /\ dPc = "loop"
    /\ dSnap = <<>>
    /\ Len(dLog) = 2
    /\ \A k \in DOMAIN dLog :
          dLog[k].kind = "admit" /\ dLog[k].limit = 1 /\ queue[dLog[k].id].dispatched

\* C16: when resolving the parameters or the project version of an entry
\* fails, the entry stays undispatched, no pipeline or task is created, no
\* worker count changes, and the tick goes on with the next entry.
C16_ParamFailureSkipsEntry ==
    [][(/\ dPc = "loop"
        /\ Len(dLog') = Len(dLog) + 1
        /\ dLog'[Len(dLog')].kind = "fail")
          => /\ queue' = queue
             /\ ~queue'[dLog'[Len(dLog')].id].dispatched
             /\ pipelines' = pipelines
             /\ tasks' = tasks
             /\ dRunning' = dRunning
             /\ dItems' = Tail(dItems)
             /\ dPc' = "loop"]_vars

\* with counted workers, a tick failed on one entry and admitted the next
C16_Witness ==
    /\ dSnap # <<>>
    /\ Len(dLog) = 2
    /\ dLog[1].kind = "fail"
    /\ ~queue[dLog[1].id].dispatched
    /\ dLog[2].kind = "admit"
    /\ queue[dLog[2].id].dispatched
    /\ dLog[1].created <= dLog[2].created

\* C17: the loop body run for an enabled schedule whose cron expression does
\* not parse creates no queue entry, leaves the schedule's row (last_run_at,
\* enabled) unchanged, lets the tick go on and keeps the remaining schedules.
C17_InvalidCronSkipped ==
    [][(/\ stPc = "loop" /\ stTodo # <<>>
        /\ stRows[Head(stTodo)].enabled
        /\ stRows[Head(stTodo)].cron_expression = InvalidCron
        /\ <<stPc, stTodo, lastDecision>>' # <<stPc, stTodo, lastDecision>>)
          => /\ queue' = queue
             /\ schedules' = schedules
             /\ stPc' = "loop"
             /\ stTodo' = Tail(stTodo)
             /\ lastDecision'[Head(stTodo)].kind = "invalid"]_vars

\* in one tick the enabled schedule 1 with an invalid expression was passed
\* over, untouched, and schedule 2 got its queue entry
C17_Witness ==
    /\ stPc = "save"
    /\ Head(stTodo) = 2
    /\ stRows[1].enabled /\ stRows[1].cron_expression = InvalidCron
    /\ lastDecision[1].kind = "invalid"
    /\ schedules[1].enabled /\ schedules[1].last_run_at = NoneTime
    /\ queue # <<>> /\ queue[Len(queue)].schedule = 2

\* schedule row `row` is due at instant t
IsDue(row, t) ==
    /\ row.enabled
    /\ row.cron_expression # InvalidCron
    /\ \/ row.last_run_at = NoneTime
       \/ get_next_run_time(row.cron_expression, t) > row.last_run_at

\* C19: for a due enabled schedule the loop body appends exactly one queue
\* entry, undispatched, without pipeline, referencing the schedule and its
\* launch configuration, and then stores the tick's evaluation instant as
\* last_run_at; for a disabled schedule it appends nothing and changes no row.
C19_DueScheduleEnqueuedOnce ==
    [][/\ (/\ stPc = "loop" /\ stTodo # <<>>
           /\ <<stPc, stTodo, lastDecision>>' # <<stPc, stTodo, lastDecision>>)
          => LET s == Head(stTodo)
             IN /\ IsDue(stRows[s], stNow)
                     => /\ Len(queue') = Len(queue) + 1
                        /\ SubSeq(queue', 1, Len(queue)) = queue
                        /\ queue'[Len(queue')].schedule = s
                        /\ queue'[Len(queue')].launch_config = s
                        /\ ~queue'[Len(queue')].dispatched
                        /\ queue'[Len(queue')].pipeline = NoPipeline
                        /\ stPc' = "save"
                /\ ~stRows[s].enabled => (queue' = queue /\ schedules' = schedules)
       /\ (stPc = "save" /\ stPc' # "save")
          => /\ schedules' = [schedules EXCEPT ![Head(stTodo)].last_run_at = stNow]
             /\ queue' = queue]_vars

\* a schedule was enqueued for a due tick earlier than the tick's instant and
\* its last_run_at holds the instant
C19_Witness ==
    \E s \in Schedules :
        /\ lastDecision[s].kind = "enqueued"
        /\ stPc = "loop"
        /\ schedules[s].last_run_at = stNow
        /\ lastDecision[s].due < stNow
        /\ \E i \in DOMAIN queue : queue[i].schedule = s /\ ~queue[i].dispatched

\* C20: a stop of a pipeline that is FINISHED, in the row and in the object
\* the caller read, leaves the row as it is and sends neither a status-changed
\* nor a pipeline-finished notification.
C20_StopOnFinishedIsSilent ==
    [][(/\ stops.pc = "read" /\ stops'.pc = "idle"
        /\ stops.mem = FINISHED
        /\ pipelines[stops.pipeline].status = FINISHED)
          => /\ pipelines'[stops.pipeline].status = FINISHED
             /\ ~lastSet'.delivered
             /\ ~lastSet'.finished_sent]_vars

AdmittedWithCap(L) == {i \in DOMAIN dLog : dLog[i].kind = "admit" /\ dLog[i].limit = L}

SpareBelow(L, running) == SumSeq([w \in DOMAIN running |-> Max0(L - running[w])])

C21_StopClearsStoredHandles ==
    [][(/\ stops.pc = "read" /\ stops'.pc = "idle"
        /\ pipelines[stops.pipeline].run_task_id # NoTask)
          => pipelines'[stops.pipeline].run_task_id = NoTask]_vars

C23_DeletedOnlyWhenFinished ==
    [][\A p \in DOMAIN pipelines :
          (~pipelines[p].deleted /\ pipelines'[p].deleted)
              => pipelines[p].status = FINISHED]_vars

C25_StreamFollowsRun ==
    /\ [][(/\ stream.pc \in {"view", "api"}
           /\ stream'.pc = stream.pc
           /\ stream.last_status # "None"
           /\ pipelines'[stream.pipeline].status # pipelines[stream.pipeline].status)
             => stream.last_status = pipelines[stream.pipeline].status]_vars
    /\ [](stream.pc = "done"
            => /\ pipelines[stream.pipeline].status = FINISHED
               /\ \A t \in DOMAIN tasks :
                     tasks[t].pipeline = stream.pipeline => TaskEnded(t))

\* what the loop body of a Scheduler Tick decides for schedule row `row` at
\* instant t
TickDecision(row, t) ==
    IF ~row.enabled THEN "disabled"
    ELSE IF row.cron_expression = InvalidCron THEN "invalid"
    ELSE IF AlreadyProcessed(row.last_run_at, get_next_run_time(row.cron_expression, t))
    THEN "notdue"
    ELSE "enqueued"

\* C26: a run-once request appends exactly one queue entry, undispatched,
\* without pipeline, linked to the schedule and its launch configuration, and
\* changes neither a schedule row nor a running tick; and what a Scheduler
\* Tick decides for a schedule depends on the schedule row and the instant
\* only, so it is the same with and without the entries run-once appended.
C26_RunOnceLeavesScheduleAlone ==
    [][/\ (Len(queue') = Len(queue) + 1 /\ enqLog' = enqLog)
          => /\ \E s \in Schedules : queue' = Append(queue, NewQueueEntry(s, now))
             /\ ~queue'[Len(queue')].dispatched
             /\ queue'[Len(queue')].pipeline = NoPipeline
             /\ schedules' = schedules
             /\ <<stPc, stNow, stTodo, stRows, lastDecision>>' =
                    <<stPc, stNow, stTodo, stRows, lastDecision>>
             /\ \A s \in Schedules, t \in 0..MaxTime :
                    TickDecision(schedules'[s], t) = TickDecision(schedules[s], t)
       /\ (stPc = "loop" /\ stTodo # <<>> /\ lastDecision' # lastDecision)
          => lastDecision'[Head(stTodo)].kind = TickDecision(stRows[Head(stTodo)], stNow)]_vars

\* a run-once entry is in the queue and a later Scheduler Tick has enqueued
\* the same schedule for its due tick all the same
C26_Witness ==
    /\ Len(queue) = 2
    /\ Len(enqLog) = 1
    /\ queue[1].schedule = queue[2].schedule
    /\ enqLog[1][1] = queue[2].schedule
    /\ enqLog[1][2] > queue[1].created
    /\ schedules[queue[1].schedule].last_run_at = queue[2].created

\* C27: a dispatched entry has a dispatch time and refers to a pipeline whose
\* stored run_task_id is the id of a task started for that pipeline; and once
\* an entry is dispatched no step changes any of its fields or creates another
\* pipeline for it.
C27_DispatchedEntryImmutable ==
    /\ [](\A i \in DOMAIN queue :
            queue[i].dispatched
                => /\ queue[i].dispatched_at # NoneTime
                   /\ queue[i].pipeline \in DOMAIN pipelines
                   /\ \E t \in DOMAIN tasks :
                         /\ tasks[t].tid = pipelines[queue[i].pipeline].run_task_id
                         /\ tasks[t].pipeline = queue[i].pipeline)
    /\ [][\A i \in DOMAIN queue :
            queue[i].dispatched
                => /\ queue'[i] = queue[i]
                   /\ (admitLog' # admitLog => admitLog'[Len(admitLog')] # i)]_vars

AfterBuild == {"built", "uploading", "nofindings", "findings", "done", "replaced"}

\* C29: of all deliveries of run_sast_pipeline for one pipeline, at most one
\* gets through the build/scan step.
C29_BuildAtMostOnce ==
    \A p \in DOMAIN pipelines :
        Cardinality({t \in DOMAIN tasks :
                        tasks[t].pipeline = p /\ tasks[t].pc \in AfterBuild}) <= 1

\* the caps a tick compares against the snapshot: entries it does not pass over
HasCap(item) == item.schedule # NoSchedule /\ item.enabled /\ item.limit >= 1

\* entry i is undispatched, its schedule is enabled with cap >= 1 and its
\* parameters resolve
Eligible(i) ==
    /\ i \in 1..Len(queue)
    /\ ~queue[i].dispatched
    /\ queue[i].schedule # NoSchedule
    /\ schedules[queue[i].schedule].enabled
    /\ schedules[queue[i].schedule].max_concurrent_per_worker >= 1
    /\ schedules[queue[i].launch_config].params_ok

Loaded(i) == \E k \in DOMAIN dItems : dItems[k].id = i
Pos(i) == CHOOSE k \in DOMAIN dItems : dItems[k].id = i

\* a tick has just taken its snapshot and loaded entry i, and some worker's
\* count in the snapshot is below the cap of each of the first n loaded entries
SnapshotBelowCaps(i, n) ==
    /\ dPc = "loop"
    /\ dLog = <<>>
    /\ Loaded(i)
    /\ \E w \in DOMAIN dSnap :
          \A k \in 1..n : HasCap(dItems[k]) => dSnap[w] < dItems[k].limit

\* C30 as stated: an eligible entry is eventually dispatched whenever,
\* infinitely often, some worker's snapshot count is below the caps of the
\* entries ahead of it.
C30_EventuallyDispatchedRoomAhead ==
    \A i \in 1..MaxQueue :
        []<>(Loaded(i) /\ SnapshotBelowCaps(i, Pos(i) - 1))
            => (Eligible(i) ~> (i \in 1..Len(queue) /\ queue[i].dispatched))

\* C30: an eligible entry is eventually dispatched whenever, infinitely often,
\* some worker's snapshot count is below the caps of the entries ahead of it
\* and below its own cap; entries passed over (no schedule, disabled, invalid
\* cap, unresolvable parameters) put no further condition on it.
C30_EventuallyDispatched ==
    \A i \in 1..MaxQueue :
        []<>(Loaded(i) /\ SnapshotBelowCaps(i, Pos(i)))
            => (Eligible(i) ~> (i \in 1..Len(queue) /\ queue[i].dispatched))

\* a tick passed over one entry and then dispatched a later one, with a worker
\* counted busy in its snapshot
C30_Witness ==
    /\ dPc = "loop"
    /\ \E w \in DOMAIN dSnap : dSnap[w] >= 1
    /\ \E a, b \in DOMAIN dLog :
          /\ a < b
          /\ dLog[a].kind \in {"skip", "fail"}
          /\ dLog[b].kind = "admit"
          /\ queue[dLog[b].id].dispatched
          /\ ~queue[dLog[a].id].dispatched

====
